---- MODULE Spec2Model ----
(***************************************************************************)
(* A model of the Popup component (ui/popup.js): its lifecycle on a map    *)
(* (addTo / remove / setLngLat / setDOMContent / _update), the automatic   *)
(* anchor selection of _update and the offset table of normalizeOffset.    *)
(***************************************************************************)
EXTENDS Integers, Sequences, FiniteSets, TLC

(***************************************************************************)
(* Bounds of the model.                                                    *)
(***************************************************************************)
\* offsets given as a number range over -MaxRadius..MaxRadius
MaxRadius == 6
\* container and viewport sizes range over 0..MaxDim pixels
MaxDim == 4
\* coordinates of the points of per-anchor offset mappings: 1..MaxSeed
MaxSeed == 2
\* projected positions are held in units of 1/SubPx pixel
SubPx == 2

(***************************************************************************)
(* Values of the program.                                                  *)
(***************************************************************************)
AnchorNames ==
    {"center", "top", "bottom", "left", "right",
     "top-left", "top-right", "bottom-left", "bottom-right"}

\* new Point(x, y)
Point(x, y) == [x |-> x, y |-> y]

\* An array [x, y] and a Point are the two PointLike shapes.
ArrayOf(x, y) == [kind |-> "array", arr |-> <<x, y>>]
PointOf(x, y) == [kind |-> "point", x |-> x, y |-> y]
Undefined == [kind |-> "undefined"]
Null == [kind |-> "null"]
Truthy(v) == v \notin {Undefined, Null}
NumberOf(n) == [kind |-> "number", n |-> n]
ObjectOf(f) == [kind |-> "object", get |-> f]

\* Point.convert: a Point is returned as it is, an array [x, y] becomes
\* new Point(x, y).
PointConvert(a) ==
    IF a.kind = "point" THEN Point(a.x, a.y)
    ELSE Point(a.arr[1], a.arr[2])

Abs(n) == IF n < 0 THEN -n ELSE n

\* Math.floor in the place of Math.round: the largest c at most
\* sqrt(offset^2 / 2).
cornerOffsetFloored(offset) ==
    LET S == {c \in 0..Abs(offset) : 2 * c * c <= offset * offset}
    IN CHOOSE c \in S : \A d \in S : d <= c

\* Math.round(Math.sqrt(0.5 * Math.pow(offset, 2))): the largest c whose
\* lower rounding boundary c - 1/2 is at most sqrt(offset^2 / 2).
cornerOffsetOf(offset) ==
    LET S == {c \in 0..Abs(offset) :
                c = 0 \/ (2 * c - 1) * (2 * c - 1) <= 2 * offset * offset}
    IN CHOOSE c \in S : \A d \in S : d <= c

\* JavaScript's !offset for the values an offset option takes.
Falsy(offset) ==
    \/ offset.kind = "undefined"
    \/ offset.kind = "number" /\ offset.n = 0

\* the lookup with 'top-left' and 'top-right' exchanged
PropOrZeroMistyped(offset, key) ==
    LET read == CASE key = "top-left" -> "top-right"
                  [] key = "top-right" -> "top-left"
                  [] OTHER -> key
    IN IF read \in DOMAIN offset.get THEN offset.get[read] ELSE ArrayOf(0, 0)

\* offset[key] || [0, 0]
PropOrZero(offset, key) ==
    IF key \in DOMAIN offset.get THEN offset.get[key] ELSE ArrayOf(0, 0)

\* normalizeOffset with the single-point table begun from the radius table:
\* 'center' is left at (0, 0)
normalizeOffsetCenterZero(offset) ==
    IF Falsy(offset) THEN [a \in AnchorNames |-> Point(0, 0)]
    ELSE IF offset.kind = "number" THEN
        LET cornerOffset == cornerOffsetOf(offset.n) IN
        [a \in AnchorNames |->
            CASE a = "center" -> Point(0, 0)
              [] a = "top" -> Point(0, offset.n)
              [] a = "top-left" -> Point(cornerOffset, cornerOffset)
              [] a = "top-right" -> Point(-cornerOffset, cornerOffset)
              [] a = "bottom" -> Point(0, -offset.n)
              [] a = "bottom-left" -> Point(cornerOffset, -cornerOffset)
              [] a = "bottom-right" -> Point(-cornerOffset, -cornerOffset)
              [] a = "left" -> Point(offset.n, 0)
              [] a = "right" -> Point(-offset.n, 0)]
    ELSE IF offset.kind \in {"point", "array"} THEN
        LET convertedOffset == PointConvert(offset) IN
        [a \in AnchorNames |-> IF a = "center" THEN Point(0, 0) ELSE convertedOffset]
    ELSE
        [a \in AnchorNames |-> PointConvert(PropOrZero(offset, a))]

RECURSIVE normalizeOffset(_)
normalizeOffset(offset) ==
    IF Falsy(offset) THEN normalizeOffset(PointOf(0, 0))
    ELSE IF offset.kind = "number" THEN
        LET cornerOffset == cornerOffsetOf(offset.n) IN
        [a \in AnchorNames |->
            CASE a = "center" -> Point(0, 0)
              [] a = "top" -> Point(0, offset.n)
              [] a = "top-left" -> Point(cornerOffset, cornerOffset)
              [] a = "top-right" -> Point(-cornerOffset, cornerOffset)
              [] a = "bottom" -> Point(0, -offset.n)
              [] a = "bottom-left" -> Point(cornerOffset, -cornerOffset)
              [] a = "bottom-right" -> Point(-cornerOffset, -cornerOffset)
              [] a = "left" -> Point(offset.n, 0)
              [] a = "right" -> Point(-offset.n, 0)]
    ELSE IF offset.kind \in {"point", "array"} THEN
        LET convertedOffset == PointConvert(offset) IN
        [a \in AnchorNames |-> convertedOffset]
    ELSE
        [a \in AnchorNames |-> PointConvert(PropOrZero(offset, a))]

\* Array.prototype.join('-') of the one or two anchor components.
JoinDash(components) ==
    IF Len(components) = 1 THEN components[1]
    ELSE components[1] \o "-" \o components[2]

\* The vertical component chosen with the offset left out of the first test
VerticalWithoutOffset(pos, height, transformHeight, offset) ==
    IF pos.y < height * SubPx THEN <<"top">>
    ELSE IF pos.y > (transformHeight - height) * SubPx THEN <<"bottom">>
    ELSE <<>>

\* The vertical component of the automatic anchor (popup.js 291-297). pos is
\* in 1/SubPx pixels; height, transformHeight and the offsets are in pixels.
VerticalComponents(pos, height, transformHeight, offset) ==
    IF pos.y + offset["bottom"].y * SubPx < height * SubPx THEN <<"top">>
    ELSE IF pos.y > (transformHeight - height) * SubPx THEN <<"bottom">>
    ELSE <<>>

\* The horizontal component chosen against the whole width, not half of it
PushHorizontalWholeWidth(anchorComponents, pos, width, transformWidth) ==
    IF pos.x < width * SubPx THEN Append(anchorComponents, "left")
    ELSE IF pos.x > (transformWidth - width) * SubPx
         THEN Append(anchorComponents, "right")
    ELSE anchorComponents

\* The horizontal component pushed after it (popup.js 299-303); width / 2
\* is compared exactly, with both sides doubled.
PushHorizontal(anchorComponents, pos, width, transformWidth) ==
    IF 2 * pos.x < width * SubPx THEN Append(anchorComponents, "left")
    ELSE IF 2 * pos.x > (2 * transformWidth - width) * SubPx
         THEN Append(anchorComponents, "right")
    ELSE anchorComponents

\* The anchor _update chooses when options.anchor is not set.
AutoAnchor(pos, width, height, transformWidth, transformHeight, offset) ==
    LET anchorComponents ==
            PushHorizontal(VerticalComponents(pos, height, transformHeight, offset),
                           pos, width, transformWidth)
    IN IF Len(anchorComponents) = 0 THEN "bottom"
       ELSE JoinDash(anchorComponents)

\* The anchor-translate table, as the percentages of the container's own size
\* the container is translated by.
anchorTranslate ==
    [a \in AnchorNames |->
        CASE a = "center" -> Point(0, 0)
          [] a = "top" -> Point(-50, 0)
          [] a = "top-left" -> Point(0, 0)
          [] a = "top-right" -> Point(-100, 0)
          [] a = "bottom" -> Point(-50, -100)
          [] a = "bottom-left" -> Point(0, -100)
          [] a = "bottom-right" -> Point(-100, -100)
          [] a = "left" -> Point(0, -50)
          [] a = "right" -> Point(-100, -50)]

(***************************************************************************)
(* The maps a popup can be added to, and their transforms.                 *)
(***************************************************************************)
MapIds == {"mapA", "mapB"}
NoMap == "undefined"
NoEl == "undefined"
NoNode == "undefined"
NoAnchor == "undefined"

\* map.transform.width / height, in pixels
TransformWidth(m) == MaxDim
TransformHeight(m) == MaxDim
\* map.transform.renderWorldCopies
RenderWorldCopies(m) == m = "mapA"
\* the width in pixels of one copy of the world (360 degrees of longitude)
WorldSize(m) == TransformWidth(m) \div 2
\* the values map.transform.center.lng takes
Centers == {-180, 180}

\* the coordinates callers pass to setLngLat
LngInputs == {-270, 90, 450}
LatInputs == {-45, 45}
LngLatOf(lng, lat) == [lng |-> lng, lat |-> lat]

\* LngLat.convert of an array [lng, lat] or an object {lng, lat}.
LngLatConvert(input) ==
    IF input.kind = "array" THEN LngLatOf(input.arr[1], input.arr[2])
    ELSE LngLatOf(input.lng, input.lat)

LngLatInputs ==
    {ArrayOf(lng, lat) : lng \in LngInputs, lat \in LatInputs}
    \cup {[kind |-> "object", lng |-> 90, lat |-> 45]}

\* transform.locationPoint: the pixel position of a coordinate, in 1/SubPx
\* pixels, on the map centred at longitude c.
LocationPoint(m, c, lngLat) ==
    Point(((lngLat.lng - c) * WorldSize(m) * SubPx) \div 360
              + (TransformWidth(m) * SubPx) \div 2,
          (TransformHeight(m) * SubPx) \div 2
              - (lngLat.lat * WorldSize(m) * SubPx) \div 180)

\* map.project
Project(m, c, lngLat) == LocationPoint(m, c, lngLat)

DistSqr(a, b) == (a.x - b.x) * (a.x - b.x) + (a.y - b.y) * (a.y - b.y)

OnScreen(m, pos) ==
    /\ pos.x >= 0 /\ pos.y >= 0
    /\ pos.x <= TransformWidth(m) * SubPx
    /\ pos.y <= TransformHeight(m) * SubPx

\* smartWrap, second step: wrap toward the centre until the position is on
\* screen or no closer copy exists.
RECURSIVE WrapTowardCenter(_, _, _)
WrapTowardCenter(m, c, lngLat) ==
    IF Abs(lngLat.lng - c) > 180 /\ ~OnScreen(m, LocationPoint(m, c, lngLat))
    THEN WrapTowardCenter(m, c,
            IF lngLat.lng > c THEN LngLatOf(lngLat.lng - 360, lngLat.lat)
            ELSE LngLatOf(lngLat.lng + 360, lngLat.lat))
    ELSE lngLat

\* smartWrap(lngLat, priorPos, transform)
smartWrap(m, c, lngLat, priorPos) ==
    LET left == LngLatOf(lngLat.lng - 360, lngLat.lat)
        right == LngLatOf(lngLat.lng + 360, lngLat.lat)
        delta == DistSqr(LocationPoint(m, c, lngLat), priorPos)
        shifted ==
            IF ~Truthy(priorPos) THEN lngLat
            ELSE IF DistSqr(LocationPoint(m, c, left), priorPos) < delta THEN left
            ELSE IF DistSqr(LocationPoint(m, c, right), priorPos) < delta THEN right
            ELSE lngLat
    IN WrapTowardCenter(m, c, shifted)

(***************************************************************************)
(* The state: the popup's fields, the DOM, the maps, and what was emitted. *)
(***************************************************************************)
VARIABLES
    options,     \* this.options, fixed by the constructor
    _map,        \* this._map: a map, or undefined
    _lngLat,     \* this._lngLat: a LngLat, or undefined
    _pos,        \* this._pos: a Point in 1/SubPx pixels, null or undefined
    _content,    \* this._content: an element, or undefined
    _container,  \* this._container: an element, or undefined
    parent,      \* DOM: each element's parentNode (an element, a map's container, or none)
    holds,       \* DOM: the node appended to each content element
    style,       \* DOM: each element's transform and anchor class
    center,      \* each map's transform.center.lng
    listeners,   \* each map's registrations of the popup's _update ('move') and _onClickClose ('click')
    fired,       \* the events the popup fired during the last operation, in order
    lastOp,      \* the last operation and its argument
    selIn, selOut,  \* anchor selection applied to an input on its own
    offIn, offOut   \* normalizeOffset applied to an input on its own

popupVars == <<_map, _lngLat, _pos, _content, _container, parent, holds, style>>
lifeVars == <<options, popupVars, center, listeners, fired, lastOp>>
fnVars == <<selIn, selOut, offIn, offOut>>
vars == <<lifeVars, fnVars>>

Els == {"el1", "el2", "el3"}
\* the nodes callers give as content: a text node, a fragment of parsed HTML, an element
Nodes == {"text", "html", "div"}

\* offsetWidth / offsetHeight of a container laid out around a node, in pixels
NodeWidth(n) == CASE n = "text" -> 1 [] n = "html" -> 2 [] n = "div" -> MaxDim [] OTHER -> 0
NodeHeight(n) == CASE n = "text" -> 1 [] n = "html" -> 2 [] n = "div" -> MaxDim - 1 [] OTHER -> 0

\* The popup's fields and the DOM as one value, for the methods to transform.
Snapshot ==
    [map |-> _map, lngLat |-> _lngLat, pos |-> _pos, content |-> _content,
     container |-> _container, parent |-> parent, holds |-> holds, style |-> style]

\* DOM.remove(node): detach it from its parent, if it has one.
DomRemove(par, e) == [par EXCEPT ![e] = NoEl]

\* An element object not in use: referenced by no field, detached, childless.
IsFree(s, e) ==
    /\ e # s.content /\ e # s.container
    /\ s.parent[e] = NoEl
    /\ \A k \in Els : s.parent[k] # e
FreshEl(s) == CHOOSE e \in Els : IsFree(s, e)

\* Element objects nothing refers to any more carry no state.
Collect(s) ==
    [s EXCEPT !.holds = [e \in Els |-> IF IsFree(s, e) THEN NoNode ELSE s.holds[e]],
              !.style = [e \in Els |-> IF IsFree(s, e) THEN Undefined ELSE s.style[e]]]

\* Math.round of a coordinate held in 1/SubPx pixels, in pixels.
Round(q) == (2 * q + SubPx) \div (2 * SubPx)

\* container.offsetWidth / offsetHeight
OffsetWidth(s) ==
    IF s.content # NoEl /\ s.parent[s.content] = s.container
    THEN NodeWidth(s.holds[s.content]) ELSE 0
OffsetHeight(s) ==
    IF s.content # NoEl /\ s.parent[s.content] = s.container
    THEN NodeHeight(s.holds[s.content]) ELSE 0

\* _update creating the container without appending the content to it
EnsureContainerWithoutContent(s) ==
    IF s.container # NoEl THEN s
    ELSE LET c == FreshEl(s) IN
         [s EXCEPT !.container = c,
                   !.parent = [s.parent EXCEPT ![c] = s.map]]

\* _update, lines 266-275: create the container in the map's container and put
\* the content in it.
EnsureContainer(s) ==
    IF s.container # NoEl THEN s
    ELSE LET c == FreshEl(s) IN
         [s EXCEPT !.container = c,
                   !.parent = [s.parent EXCEPT ![c] = s.map, ![s.content] = c]]

\* the location wrapped whatever renderWorldCopies is
WrappedAlways(s, cs) == smartWrap(s.map, cs[s.map], s.lngLat, s.pos)

\* _update, lines 277-279: the location, wrapped on a map that renders world
\* copies.
WrappedLngLat(s, cs) ==
    IF RenderWorldCopies(s.map)
    THEN smartWrap(s.map, cs[s.map], s.lngLat, s.pos)
    ELSE s.lngLat

\* the anchor chosen automatically, whatever options.anchor is
AnchorAlwaysAutomatic(s, pos, offset) ==
    AutoAnchor(pos, OffsetWidth(s), OffsetHeight(s),
               TransformWidth(s.map), TransformHeight(s.map), offset)

\* _update, lines 283-310: the anchor used.
AnchorOf(s, pos, offset) ==
    IF options.anchor # NoAnchor THEN options.anchor
    ELSE AutoAnchor(pos, OffsetWidth(s), OffsetHeight(s),
                    TransformWidth(s.map), TransformHeight(s.map), offset)

\* _update(), on a map centred as cs gives.
Update(s, cs) ==
    IF s.map = NoMap \/ ~Truthy(s.lngLat) \/ s.content = NoEl THEN s
    ELSE LET s1 == EnsureContainer(s)
             lngLat == WrappedLngLat(s1, cs)
             pos == Project(s1.map, cs[s1.map], lngLat)
             offset == normalizeOffset(options.offset)
             anchor == AnchorOf(s1, pos, offset)
             offsetedPos == Point(Round(pos.x + offset[anchor].x * SubPx),
                                  Round(pos.y + offset[anchor].y * SubPx))
         IN [s1 EXCEPT !.lngLat = lngLat,
                       !.pos = pos,
                       !.style = [s1.style EXCEPT ![s1.container] =
                                     [anchor |-> anchor,
                                      translate |-> anchorTranslate[anchor],
                                      x |-> offsetedPos.x, y |-> offsetedPos.y]]]

\* _createContent() without DOM.remove(this._content)
CreateContentKeepingOld(s) ==
    LET e == FreshEl(s)
    IN [s EXCEPT !.content = e,
                 !.parent = [s.parent EXCEPT ![e] = s.container],
                 !.holds = [s.holds EXCEPT ![e] = NoNode]]

\* _createContent()
CreateContent(s) ==
    LET removed == IF s.content # NoEl THEN DomRemove(s.parent, s.content) ELSE s.parent
        e == FreshEl([s EXCEPT !.parent = removed, !.content = NoEl])
    IN [s EXCEPT !.content = e,
                 !.parent = [removed EXCEPT ![e] = s.container],
                 !.holds = [s.holds EXCEPT ![e] = NoNode]]

\* element.appendChild(node): the node leaves the element it was in.
AppendChild(h, e, node) ==
    [k \in Els |-> IF k = e THEN node ELSE IF h[k] = node THEN NoNode ELSE h[k]]

\* setDOMContent(htmlNode)
SetDOMContentOf(s, cs, node) ==
    LET s1 == CreateContent(s)
        s2 == [s1 EXCEPT !.holds = AppendChild(s1.holds, s1.content, node)]
    IN Update(s2, cs)

\* remove() without DOM.remove(this._container)
RemoveLeavingContainerInDom(s) ==
    LET p1 == IF s.content # NoEl THEN DomRemove(s.parent, s.content) ELSE s.parent
    IN [s EXCEPT !.parent = p1, !.container = NoEl, !.map = NoMap]

\* remove() without `delete this._container`
RemoveKeepingContainer(s) ==
    LET p1 == IF s.content # NoEl THEN DomRemove(s.parent, s.content) ELSE s.parent
        p2 == IF s.container # NoEl THEN DomRemove(p1, s.container) ELSE p1
    IN [s EXCEPT !.parent = p2, !.map = NoMap]

\* remove(), lines 129-142: the fields and the DOM after it.
RemoveOf(s) ==
    LET p1 == IF s.content # NoEl THEN DomRemove(s.parent, s.content) ELSE s.parent
        p2 == IF s.container # NoEl THEN DomRemove(p1, s.container) ELSE p1
    IN [s EXCEPT !.parent = p2, !.container = NoEl, !.map = NoMap]

\* isOpen() answering whether the popup is rendered
isOpenWhenRendered(s) == s.container # NoEl

\* isOpen()
isOpenOf(s) == s.map # NoMap

\* getLngLat()
getLngLatOf(s) == s.lngLat

\* Evented: on adds a listener to a map's registry, off takes it out.
On(ls, m, type) == [ls EXCEPT ![m][type] = TRUE]
Off(ls, m, type) == [ls EXCEPT ![m][type] = FALSE]

\* remove(), lines 138-142: the registrations after it.
RemoveListeners(s, ls) ==
    IF s.map # NoMap THEN Off(Off(ls, s.map, "move"), s.map, "click") ELSE ls

\* addTo(map) without this._map.on('move', this._update)
AddToListenersWithoutMove(ls, m) ==
    IF options.closeOnClick THEN On(ls, m, "click") ELSE ls

\* addTo(map) registering _onClickClose whatever options.closeOnClick is
AddToListenersAlwaysClick(ls, m) == On(On(ls, m, "move"), m, "click")

\* addTo(map), lines 93-96: the registrations after it.
AddToListeners(ls, m) ==
    LET l1 == On(ls, m, "move")
    IN IF options.closeOnClick THEN On(l1, m, "click") ELSE l1

\* new Event(type) as fire delivers it: the target is the popup, and a
\* listener calling isOpen() reads the popup as it is then.
EventOf(type, s) == [type |-> type, target |-> "popup", isOpen |-> isOpenOf(s)]

\* remove(), line 153: what it fires.
RemoveFires(s) == <<EventOf("close", RemoveOf(s))>>

\* addTo(map), line 108: what it fires.
AddToFires(s) == <<EventOf("open", s)>>

Commit(s) ==
    \E t \in {Collect(s)} :
    /\ _map' = t.map
    /\ _lngLat' = t.lngLat
    /\ _pos' = t.pos
    /\ _content' = t.content
    /\ _container' = t.container
    /\ parent' = t.parent
    /\ holds' = t.holds
    /\ style' = t.style

(***************************************************************************)
(* The popup's life on the maps.                                           *)
(***************************************************************************)
\* the options popups are constructed with (defaultOptions extended)
PopupOptions ==
    {[closeButton |-> TRUE, closeOnClick |-> TRUE, anchor |-> NoAnchor, offset |-> Undefined],
     [closeButton |-> FALSE, closeOnClick |-> FALSE, anchor |-> NoAnchor, offset |-> NumberOf(1)],
     [closeButton |-> TRUE, closeOnClick |-> FALSE, anchor |-> "top-left", offset |-> NumberOf(2)]}

FnIdle ==
    /\ selIn = Undefined /\ selOut = "idle"
    /\ offIn = Undefined /\ offOut = Undefined

\* new Popup(options)
Constructed(o) ==
    /\ options = o
    /\ _map = NoMap
    /\ _lngLat = Undefined
    /\ _pos = Undefined
    /\ _content = NoEl
    /\ _container = NoEl
    /\ parent = [e \in Els |-> NoEl]
    /\ holds = [e \in Els |-> NoNode]
    /\ style = [e \in Els |-> Undefined]
    /\ center = [m \in MapIds |-> 180]
    /\ listeners = [m \in MapIds |-> [move |-> FALSE, click |-> FALSE]]
    /\ fired = <<>>
    /\ lastOp = [name |-> "new", arg |-> Undefined]

Init ==
    /\ \E o \in PopupOptions : Constructed(o)
    /\ FnIdle

\* popup.addTo(map)
AddTo(m) ==
    /\ Commit(Update([Snapshot EXCEPT !.map = m], center))
    /\ listeners' = AddToListeners(listeners, m)
    /\ fired' = AddToFires([Snapshot EXCEPT !.map = m])
    /\ lastOp' = [name |-> "addTo",
                   arg |-> [map |-> m, wasOpen |-> isOpenOf(Snapshot),
                            afterRemove |-> (lastOp.name \in {"remove", "click", "closeButton"}
                                               /\ lastOp.arg.removed)]]
    /\ UNCHANGED <<options, center, fnVars>>

\* remove(), called as `name`
RemoveAs(name) ==
    /\ Commit(RemoveOf(Snapshot))
    /\ listeners' = RemoveListeners(Snapshot, listeners)
    /\ fired' = RemoveFires(Snapshot)
    /\ lastOp' = [name |-> name, arg |-> [wasOpen |-> isOpenOf(Snapshot), removed |-> TRUE]]
    /\ UNCHANGED <<options, center, fnVars>>

\* popup.remove()
Remove == RemoveAs("remove")

\* popup.setLngLat(lnglat)
SetLngLat(lnglat) ==
    /\ Commit(Update([Snapshot EXCEPT !.lngLat = LngLatConvert(lnglat), !.pos = Null],
                     center))
    /\ fired' = <<>>
    /\ lastOp' = [name |-> "setLngLat", arg |-> lnglat]
    /\ UNCHANGED <<options, center, listeners, fnVars>>

SetContent(name, node) ==
    /\ Commit(SetDOMContentOf(Snapshot, center, node))
    /\ fired' = <<>>
    /\ lastOp' = [name |-> name, arg |-> [node |-> node]]
    /\ UNCHANGED <<options, center, listeners, fnVars>>

\* popup.setText(text): a new text node is the content
SetText == SetContent("setText", "text")
\* popup.setHTML(html): a fragment of the parsed nodes is the content
SetHTML == SetContent("setHTML", "html")
\* popup.setDOMContent(htmlNode)
SetDOMContent == SetContent("setDOMContent", "div")

\* The map m moves to centre c and fires 'move' to its listeners.
MapMove(m, c) ==
    /\ center' = [center EXCEPT ![m] = c]
    /\ IF listeners[m].move
       THEN Commit(Update(Snapshot, [center EXCEPT ![m] = c]))
       ELSE UNCHANGED popupVars
    /\ fired' = <<>>
    /\ lastOp' = [name |-> "move", arg |-> [map |-> m, delivered |-> listeners[m].move]]
    /\ UNCHANGED <<options, listeners, fnVars>>

\* The map m is clicked and fires 'click' to its listeners: _onClickClose.
MapClick(m) ==
    /\ IF listeners[m].click
       THEN RemoveAs("click")
       ELSE /\ fired' = <<>>
            /\ lastOp' = [name |-> "click",
                           arg |-> [wasOpen |-> isOpenOf(Snapshot), removed |-> FALSE]]
            /\ UNCHANGED <<options, popupVars, center, listeners, fnVars>>

\* The close button of the displayed content is clicked: _onClickClose.
CloseButtonClick ==
    /\ options.closeButton
    /\ _content # NoEl /\ _container # NoEl
    /\ parent[_content] = _container
    /\ parent[_container] \in MapIds
    /\ RemoveAs("closeButton")

Next ==
    \/ \E m \in MapIds : AddTo(m)
    \/ Remove
    \/ \E l \in LngLatInputs : SetLngLat(l)
    \/ SetText
    \/ SetHTML
    \/ SetDOMContent
    \/ \E m \in MapIds, c \in Centers : MapMove(m, c)
    \/ \E m \in MapIds : MapClick(m)
    \/ CloseButtonClick

Spec == Init /\ [][Next]_vars

(***************************************************************************)
(* The automatic anchor selection applied to every input of a bounded set. *)
(***************************************************************************)
\* the offset options the selection is tried with
SelOffsets == {Undefined, NumberOf(1), NumberOf(-2), ArrayOf(1, 2)}

SelInputs ==
    [x : (-SubPx)..((MaxDim + 1) * SubPx),
     y : (-SubPx)..((MaxDim + 1) * SubPx),
     width : 0..MaxDim,
     height : 0..MaxDim,
     transformWidth : (MaxDim - 1)..MaxDim,
     transformHeight : (MaxDim - 1)..MaxDim,
     offset : SelOffsets]

InitAnchor ==
    /\ Constructed(CHOOSE o \in PopupOptions : o.anchor = NoAnchor /\ o.offset = Undefined)
    /\ selIn \in SelInputs /\ selOut = "pending"
    /\ offIn = Undefined /\ offOut = Undefined

\* _update, lines 284-310, on a projected position and the sizes read there
SelectAnchor ==
    /\ selOut = "pending"
    /\ selOut' = AutoAnchor(Point(selIn.x, selIn.y), selIn.width, selIn.height,
                            selIn.transformWidth, selIn.transformHeight,
                            normalizeOffset(selIn.offset))
    /\ UNCHANGED <<lifeVars, selIn, offIn, offOut>>

SpecAnchor == InitAnchor /\ [][SelectAnchor]_vars

(***************************************************************************)
(* normalizeOffset applied to every input of a bounded set.                *)
(***************************************************************************)
\* the keys of a per-anchor mapping: the anchor names and one that is none
OffsetKeys == AnchorNames \cup {"middle"}

\* the PointLike a mapping gives for a key: arrays and Points, [0, 0] among them
KeyRank(k) ==
    CASE k \in {"center", "middle"} -> 0
      [] k \in {"top", "bottom"} -> 1
      [] k \in {"left", "right"} -> 2
      [] OTHER -> 3
MappedPoint(k, seed) ==
    IF k \in {"top", "left", "top-left", "bottom-right", "middle"}
    THEN ArrayOf(KeyRank(k) * seed, -seed)
    ELSE PointOf(seed - 1, KeyRank(k) - seed)

OffsetInputs ==
    {Undefined}
    \cup {NumberOf(r) : r \in (-MaxRadius)..MaxRadius}
    \cup {PointOf(x, y) : x \in -1..1, y \in -1..1}
    \cup {ArrayOf(x, y) : x \in -1..1, y \in -1..1}
    \cup {ObjectOf([k \in K |-> MappedPoint(k, seed)]) :
            K \in SUBSET OffsetKeys, seed \in 1..MaxSeed}

InitOffset ==
    /\ Constructed(CHOOSE o \in PopupOptions : o.anchor = NoAnchor /\ o.offset = Undefined)
    /\ selIn = Undefined /\ selOut = "idle"
    /\ offIn \in OffsetInputs /\ offOut = Undefined

\* _update, line 284
NormalizeOffset ==
    /\ offOut = Undefined
    /\ offOut' = normalizeOffset(offIn)
    /\ UNCHANGED <<lifeVars, selIn, selOut, offIn>>

SpecOffset == InitOffset /\ [][NormalizeOffset]_vars

(***************************************************************************)
(* What the claims speak of.                                               *)
(***************************************************************************)
isOpen == isOpenOf(Snapshot)
getLngLat == getLngLatOf(Snapshot)

\* a container element exists and has a transform applied
Rendered == _container # NoEl /\ style[_container] # Undefined

\* a map is attached, a location is set, content is set
AllThree == _map # NoMap /\ Truthy(_lngLat) /\ _content # NoEl

\* the last operation was a call of remove(): by the caller, by a delivered
\* map click or by the close button
RemoveReturned ==
    lastOp.name \in {"remove", "click", "closeButton"} /\ lastOp.arg.removed

Fired(type) == \E i \in DOMAIN fired : fired[i].type = type

\* C1: a remove() on a popup that is already closed fires nothing; 'close' is
\* emitted only by a remove() that takes the popup from attached to detached.
C1_CloseOnlyOnDetach ==
    (RemoveReturned /\ ~lastOp.arg.wasOpen) => fired = <<>>

\* C2: the popup is rendered (a container exists and has a transform) if and
\* only if a map is attached, a location is set and content is set; and an
\* _update that finds one of the three missing changes nothing: no container
\* is created, and _pos and _lngLat stay as they were (as setLngLat itself
\* set them, when it is setLngLat that calls _update).
C2_UpdateNoOp ==
    /\ (lastOp'.name \in {"addTo", "setText", "setHTML", "setDOMContent", "move"}
            /\ ~AllThree')
        => /\ _container' = _container /\ _container' = NoEl
           /\ _pos' = _pos /\ _lngLat' = _lngLat /\ style' = style
    /\ (lastOp'.name = "setLngLat" /\ ~AllThree')
        => /\ _container' = _container /\ _container' = NoEl
           /\ _pos' = Null /\ _lngLat' = LngLatConvert(lastOp'.arg) /\ style' = style
C2_RenderedIffAllThree ==
    /\ [](Rendered <=> AllThree)
    /\ [][C2_UpdateNoOp]_vars
\* rendered by a 'move' notification
C2_Witness == Rendered /\ AllThree /\ lastOp.name = "move" /\ lastOp.arg.delivered

\* C3: after remove() returns, _update and _onClickClose are registered on no
\* map, and no map delivers a 'move' to a detached popup.
C3_NoListenerAfterRemove ==
    /\ RemoveReturned =>
          \A m \in MapIds : ~listeners[m].move /\ ~listeners[m].click
    /\ (lastOp.name = "move" /\ lastOp.arg.delivered) => _map # NoMap

(***************************************************************************)
(* Claims about the automatic anchor (under SpecAnchor).                   *)
(***************************************************************************)
Selected == selOut \notin {"idle", "pending"}

\* the reference rule, on a position in pixels times SubPx
RefVertical ==
    IF selIn.y + normalizeOffset(selIn.offset)["bottom"].y * SubPx < selIn.height * SubPx
    THEN "top"
    ELSE IF selIn.y > (selIn.transformHeight - selIn.height) * SubPx THEN "bottom"
    ELSE "none"
RefHorizontal ==
    IF 2 * selIn.x < selIn.width * SubPx THEN "left"
    ELSE IF 2 * selIn.x > (2 * selIn.transformWidth - selIn.width) * SubPx THEN "right"
    ELSE "none"
RefAnchor ==
    CASE RefVertical = "none" /\ RefHorizontal = "none" -> "bottom"
      [] RefVertical = "none" /\ RefHorizontal # "none" -> RefHorizontal
      [] RefVertical # "none" /\ RefHorizontal = "none" -> RefVertical
      [] RefVertical = "top" /\ RefHorizontal = "left" -> "top-left"
      [] RefVertical = "top" /\ RefHorizontal = "right" -> "top-right"
      [] RefVertical = "bottom" /\ RefHorizontal = "left" -> "bottom-left"
      [] RefVertical = "bottom" /\ RefHorizontal = "right" -> "bottom-right"

\* C4: with no explicit anchor, the anchor _update chooses is the one the
\* reference rule gives (vertical: top, bottom or none; horizontal: left, right
\* or none; "bottom" when neither), for every position, size (zero included),
\* viewport and offset; it is one of the eight non-center anchor names, and
\* the offset table and the anchor-translate table have an entry for it.
C4_AnchorIsReference ==
    Selected =>
        /\ selOut = RefAnchor
        /\ selOut \in AnchorNames \ {"center"}
        /\ selOut \in DOMAIN normalizeOffset(selIn.offset)
        /\ selOut \in DOMAIN anchorTranslate
\* a corner anchor chosen for a container of size zero, with an offset given
C4_Witness ==
    /\ selOut = "bottom-right"
    /\ selIn.width = 0 /\ selIn.height = 0
    /\ selIn.offset = NumberOf(-2)

\* the box of the popup placed by its anchor, in 1/(100 * SubPx) pixels
BoxLeft == 100 * selIn.x + anchorTranslate[selOut].x * selIn.width * SubPx
BoxTop == 100 * selIn.y + anchorTranslate[selOut].y * selIn.height * SubPx
BoxInViewport ==
    /\ BoxLeft >= 0
    /\ BoxTop >= 0
    /\ BoxLeft + 100 * selIn.width * SubPx <= 100 * selIn.transformWidth * SubPx
    /\ BoxTop + 100 * selIn.height * SubPx <= 100 * selIn.transformHeight * SubPx

\* a position inside the viewport, no offset, a container no larger than the
\* viewport
C8_Case ==
    /\ Selected
    /\ selIn.offset = Undefined
    /\ selIn.x >= 0 /\ selIn.x <= selIn.transformWidth * SubPx
    /\ selIn.y >= 0 /\ selIn.y <= selIn.transformHeight * SubPx
    /\ selIn.width <= selIn.transformWidth
    /\ selIn.height <= selIn.transformHeight

Normalized == offOut # Undefined

Negated(p) == Point(-p.x, -p.y)

\* c is Math.round of the square root of r^2 / 2: c - 1/2 <= root < c + 1/2
IsRoundedRootOfHalfSquare(c, r) ==
    /\ c >= 0
    /\ 2 * r * r < (2 * c + 1) * (2 * c + 1)
    /\ c > 0 => (2 * c - 1) * (2 * c - 1) <= 2 * r * r

\* C9: for a numeric radius r the table is symmetric (left = -right,
\* top = -bottom, top-left = -bottom-right, top-right = -bottom-left), center
\* is (0,0), the edges are top (0,r), bottom (0,-r), left (r,0), right (-r,0),
\* and every corner entry is round(sqrt(0.5 * r^2)) in absolute value on each
\* axis.
C9_RadiusTableSymmetric ==
    (Normalized /\ offIn.kind = "number") =>
        LET r == offIn.n IN
        /\ DOMAIN offOut = AnchorNames
        /\ offOut["left"] = Negated(offOut["right"])
        /\ offOut["top"] = Negated(offOut["bottom"])
        /\ offOut["top-left"] = Negated(offOut["bottom-right"])
        /\ offOut["top-right"] = Negated(offOut["bottom-left"])
        /\ offOut["center"] = Point(0, 0)
        /\ offOut["top"] = Point(0, r)
        /\ offOut["bottom"] = Point(0, -r)
        /\ offOut["left"] = Point(r, 0)
        /\ offOut["right"] = Point(-r, 0)
        /\ \A a \in {"top-left", "top-right", "bottom-left", "bottom-right"} :
              /\ IsRoundedRootOfHalfSquare(Abs(offOut[a].x), r)
              /\ IsRoundedRootOfHalfSquare(Abs(offOut[a].y), r)
\* a negative radius whose corner offset rounds up
C9_Witness ==
    /\ Normalized /\ offIn.kind = "number" /\ offIn.n = -1
    /\ offOut["bottom-right"] = Point(-1, -1)

\* the coordinates of a PointLike as the caller gave them
GivenPoint(a) == IF a.kind = "array" THEN Point(a.arr[1], a.arr[2]) ELSE Point(a.x, a.y)

\* C10: for a per-anchor mapping with any subset of the nine anchor names as
\* keys, the table is defined on exactly the nine anchor names, every present
\* key maps to the point given for it, every absent key maps to (0,0), and
\* keys that are no anchor names are ignored.
C10_MappingPassedThrough ==
    (Normalized /\ offIn.kind = "object") =>
        /\ DOMAIN offOut = AnchorNames
        /\ \A a \in AnchorNames :
              offOut[a] = IF a \in DOMAIN offIn.get THEN GivenPoint(offIn.get[a])
                          ELSE Point(0, 0)
\* a mapping with some anchor names, without others, and with a key that is
\* no anchor name
C10_Witness ==
    /\ Normalized /\ offIn.kind = "object"
    /\ {"top-left", "bottom", "middle"} \subseteq DOMAIN offIn.get
    /\ {"top-right", "left"} \cap DOMAIN offIn.get = {}
    /\ offOut["top-left"] # Point(0, 0)
    /\ offOut["top-right"] = Point(0, 0)

(***************************************************************************)
(* Claims about the popup's life (under Spec), continued.                  *)
(***************************************************************************)
\* C5 as claimed: isOpen() is true exactly when the popup is attached to a
\* view and both a location and content are present.
C5_OpenIffAllThree == isOpen <=> AllThree

\* C5 as amended: isOpen() is true exactly when the popup is attached to a
\* view, whether or not a location and content are present: it is false when
\* the popup is created, true after every addTo, false after every remove(),
\* and no other operation changes it.
C5_OpenStep ==
    isOpen' <=> \/ lastOp'.name = "addTo"
                \/ isOpen /\ ~RemoveReturned'
C5_OpenIffAttached ==
    /\ [](lastOp.name = "new" => ~isOpen)
    /\ [][C5_OpenStep]_vars
\* attached with addTo, with no location and no content: open, not rendered
C5_Witness ==
    /\ lastOp.name = "addTo" /\ isOpen
    /\ ~Truthy(_lngLat) /\ _content = NoEl /\ ~Rendered

\* C6: 'open' is emitted only when the popup goes from closed to open, once,
\* with isOpen() already true and the popup as its target; addTo on a popup
\* that is already attached emits no second 'open'.
C6_OpenOnlyOnAttach ==
    /\ Fired("open") =>
          /\ lastOp.name = "addTo" /\ ~lastOp.arg.wasOpen
          /\ fired = <<[type |-> "open", target |-> "popup", isOpen |-> TRUE]>>
    /\ (lastOp.name = "addTo" /\ lastOp.arg.wasOpen) => ~Fired("open")

\* the coordinate given to setLngLat, as given
GivenLngLat(l) ==
    IF l.kind = "array" THEN LngLatOf(l.arr[1], l.arr[2]) ELSE LngLatOf(l.lng, l.lat)

\* C7: setLngLat(l) followed at once by getLngLat() returns l; the longitude
\* differs only by a multiple of 360 degrees, and only when the popup is
\* rendered on a map with renderWorldCopies; the latitude is unchanged.
C7_RoundTrip ==
    lastOp.name = "setLngLat" =>
        LET l == GivenLngLat(lastOp.arg) IN
        /\ getLngLat.lat = l.lat
        /\ (getLngLat.lng - l.lng) % 360 = 0
        /\ getLngLat # l => (Rendered /\ _map # NoMap /\ RenderWorldCopies(_map))
        /\ ~(Rendered /\ _map # NoMap /\ RenderWorldCopies(_map)) => getLngLat = l
\* a longitude returned wrapped
C7_Witness ==
    /\ lastOp.name = "setLngLat"
    /\ getLngLat.lng # GivenLngLat(lastOp.arg).lng
    /\ Rendered

(***************************************************************************)
(* Claims about normalizeOffset (under SpecOffset), continued.             *)
(***************************************************************************)
\* C11: for a single point (a Point or a two-element array) every one of the
\* nine entries of the table equals that point; with no offset given every
\* one of the nine entries is (0,0); the table is a complete mapping over the
\* nine anchor names.
C11_SinglePointEverywhere ==
    Normalized =>
        /\ DOMAIN offOut = AnchorNames
        /\ offIn.kind \in {"point", "array"} =>
              \A a \in AnchorNames : offOut[a] = GivenPoint(offIn)
        /\ offIn.kind = "undefined" =>
              \A a \in AnchorNames : offOut[a] = Point(0, 0)
\* an array with two different coordinates, neither zero
C11_Witness ==
    /\ Normalized /\ offIn = ArrayOf(1, -1)
    /\ offOut["center"] = Point(1, -1)
    /\ offOut["bottom-left"] = Point(1, -1)

(***************************************************************************)
(* Claims about the popup's life (under Spec), continued.                  *)
(***************************************************************************)
\* C12: with closeOnClick true, a 'click' of the map the popup is attached to
\* closes it: afterwards isOpen() is false, the container is gone and 'close'
\* has been emitted; with closeOnClick false a map 'click' changes nothing of
\* the popup and emits nothing.
C12_ClickStep ==
    \A m \in MapIds :
        MapClick(m) =>
            /\ (options.closeOnClick /\ _map = m) =>
                  /\ ~isOpen'
                  /\ _container' = NoEl
                  /\ \A e \in Els : parent'[e] \notin MapIds
                  /\ fired' = <<[type |-> "close", target |-> "popup", isOpen |-> FALSE]>>
            /\ ~options.closeOnClick =>
                  /\ UNCHANGED <<popupVars, listeners>>
                  /\ fired' = <<>>
C12_CloseOnClick == [][C12_ClickStep]_vars
\* a rendered popup closed by a click of its map
C12_Witness ==
    /\ options.closeOnClick
    /\ lastOp.name = "click" /\ lastOp.arg.removed /\ lastOp.arg.wasOpen
    /\ ~isOpen /\ _container = NoEl /\ Fired("close")
    /\ _content # NoEl /\ Truthy(_pos)

\* the position _update computes now: the current location projected by the
\* attached map as it is centred now
ProjectedNow == Project(_map, center[_map], _lngLat)
\* round(projected + normalizedOffset[anchor]), in pixels
RenderedPositionFor(anchor) ==
    LET offset == normalizeOffset(options.offset)[anchor] IN
    Point((2 * (ProjectedNow.x + offset.x * SubPx) + SubPx) \div (2 * SubPx),
          (2 * (ProjectedNow.y + offset.y * SubPx) + SubPx) \div (2 * SubPx))
TranslatedPosition == Point(style[_container].x, style[_container].y)

\* C13: whenever the popup is rendered, after each 'move' of the attached map
\* and after each setLngLat or content setter, the container's translated
\* position is round(project(location) + normalizedOffset[anchor]) for the
\* map's current projection and the anchor written with it: never a value
\* left from an earlier centre or location.
C13_PositionIsCurrent ==
    Rendered =>
        /\ _pos = ProjectedNow
        /\ style[_container].anchor =
              AnchorOf(Snapshot, ProjectedNow, normalizeOffset(options.offset))
        /\ TranslatedPosition = RenderedPositionFor(style[_container].anchor)
\* the attached map has moved away from where it was when the popup was
\* constructed, the popup has an offset, and its position followed
C13_Witness ==
    /\ Rendered
    /\ lastOp.name = "move" /\ lastOp.arg.map = _map /\ lastOp.arg.delivered
    /\ center[_map] = -180
    /\ options.offset = NumberOf(1)
    /\ TranslatedPosition # Point(Round(ProjectedNow.x), Round(ProjectedNow.y))

\* C14: when options.anchor is set, every update uses that anchor for the
\* offset, the anchor translation and the anchor class, whatever the position
\* and the sizes are.
C14_ExplicitAnchorUsed ==
    (Rendered /\ options.anchor # NoAnchor) =>
        /\ style[_container].anchor = options.anchor
        /\ style[_container].translate = anchorTranslate[options.anchor]
        /\ TranslatedPosition = RenderedPositionFor(options.anchor)
\* an explicit anchor kept where the automatic choice would be another one
C14_Witness ==
    /\ Rendered /\ options.anchor = "top-left"
    /\ style[_container].anchor = "top-left"
    /\ AnchorAlwaysAutomatic(Snapshot, _pos, normalizeOffset(options.offset)) # "top-left"

\* the elements that are in some map's container, directly or through their
\* parent
InAMapContainer(e) ==
    \/ parent[e] \in MapIds
    \/ parent[e] \in Els /\ parent[parent[e]] \in MapIds

\* C15: after remove() returns the popup holds no container, and neither its
\* container nor its content element is in any map's container element.
C15_NodesReleased ==
    RemoveReturned =>
        /\ _container = NoEl
        /\ \A e \in Els : ~InAMapContainer(e)
        /\ _content # NoEl => parent[_content] = NoEl
\* remove() of a popup that was rendered after being added to both maps
C15_Witness ==
    /\ RemoveReturned /\ lastOp.arg.wasOpen
    /\ _content # NoEl /\ Truthy(_pos)
    /\ listeners["mapA"].move /\ ~listeners["mapB"].move

(***************************************************************************)
(* Content and location, set independently.                                *)
(***************************************************************************)
\* the content elements the popup has: the one in its field and the children
\* of its container
ContentElements ==
    {e \in Els : e = _content \/ (_container # NoEl /\ parent[e] = _container)}

\* a content setter was called with `node`: afterwards the popup has exactly
\* one content element, in the container if there is one; it holds the node
\* and no other element holds anything; the same call made again changes
\* nothing.
ReplacedBy(name, node) ==
    /\ _content' # NoEl
    /\ ContentElements' = {_content'}
    /\ _container' # NoEl => parent'[_content'] = _container'
    /\ holds'[_content'] = node
    /\ \A e \in Els \ {_content'} : holds'[e] = NoNode
    /\ lastOp.name = name => UNCHANGED popupVars

\* setLngLat leaves the content element and what it holds as they were
ContentKept == _content' = _content /\ holds' = holds

\* the location read back is the same value
LocationKept == _lngLat' = _lngLat

\* the location read back is the same place: the same latitude and a
\* longitude a whole number of turns away, another value only when the call
\* rendered the popup on a map with renderWorldCopies
LocationKeptUpToTurns ==
    /\ Truthy(_lngLat') = Truthy(_lngLat)
    /\ Truthy(_lngLat) =>
          /\ _lngLat'.lat = _lngLat.lat
          /\ (_lngLat'.lng - _lngLat.lng) % 360 = 0
          /\ _lngLat' # _lngLat =>
                (Rendered' /\ _map' # NoMap /\ RenderWorldCopies(_map'))

\* C16 as stated: after a content setter exactly one content element belongs
\* to the popup, holding only the node of the last call; the same call twice
\* is the same as once; a content setter leaves getLngLat() as it was and
\* setLngLat leaves the content as it was.
C16_ContentStepStated ==
    /\ \A name \in {"setText", "setHTML", "setDOMContent"}, node \in Nodes :
           SetContent(name, node) => (ReplacedBy(name, node) /\ LocationKept)
    /\ \A l \in LngLatInputs : SetLngLat(l) => ContentKept
C16_ContentStep ==
    /\ \A name \in {"setText", "setHTML", "setDOMContent"}, node \in Nodes :
           SetContent(name, node) => (ReplacedBy(name, node) /\ LocationKeptUpToTurns)
    /\ \A l \in LngLatInputs : SetLngLat(l) => ContentKept
C17_ContainerInAttachedMap ==
    /\ Rendered => (_map # NoMap /\ parent[_container] = _map)
    /\ \A e, f \in Els : (parent[e] \in MapIds /\ parent[f] \in MapIds) => e = f

(***************************************************************************)
(* Detach and attach again.                                                *)
(***************************************************************************)
\* addTo(m) on a popup that remove() has just returned from, with a location
\* and content set: it is rendered on m, in a new container in m's container
\* that holds the content element it had, which holds the node it held; the
\* location is the same place (the longitude a multiple of 360 away on a map
\* with renderWorldCopies, the same value otherwise), and the position is
\* the one it projects to.
ReattachedTo(m) ==
    /\ Rendered'
    /\ _map' = m /\ parent'[_container'] = m
    /\ _content' = _content
    /\ parent'[_content'] = _container'
    /\ holds'[_content'] = holds[_content]
    /\ _lngLat'.lat = _lngLat.lat
    /\ (_lngLat'.lng - _lngLat.lng) % 360 = 0
    /\ ~RenderWorldCopies(m) => _lngLat' = _lngLat
    /\ _pos' = Project(m, center[m], _lngLat')
    /\ TranslatedPosition' = RenderedPositionFor(style[_container].anchor)'

\* C18: a popup with a location and content that was removed with remove()
\* and is attached again with addTo(map) is rendered on that map, with a fresh
\* container holding the same content element, at the position of the same
\* location.
C18_ReattachStep ==
    \A m \in MapIds :
        (AddTo(m) /\ RemoveReturned /\ Truthy(_lngLat) /\ _content # NoEl)
            => (_container = NoEl /\ ReattachedTo(m))
C18_SurvivesDetach == [][C18_ReattachStep]_vars
\* a popup rendered on mapA, removed, and attached to mapB
C18_Witness ==
    /\ lastOp.name = "addTo" /\ lastOp.arg.afterRemove /\ lastOp.arg.map = "mapB"
    /\ Rendered /\ parent[_container] = "mapB"
    /\ holds[_content] = "div"
    /\ ~listeners["mapA"].move

====
